---- MODULE Spec2Model ----
(***************************************************************************)
(* A model of the Markov text generator of RustImplementation/src:         *)
(* the cyclic array (cyclic_array.rs), the model builder                   *)
(* (build_markov_model / analyze_corpus) and the sentence generator        *)
(* (generate_sentence) of string_based_markov_text_generator.rs.           *)
(*                                                                         *)
(* A Rust String is modelled as a sequence of characters, each character a *)
(* one-character TLA+ string, so that joining, splitting and appending are *)
(* computed and not assumed.                                               *)
(***************************************************************************)
EXTENDS Integers, Sequences, FiniteSets, TLC

VARIABLES
    order,                      \* self.order
    sentences_starter_phrases,  \* self.sentences_starter_phrases : Vec<String>
    phrase_transitions,         \* self.phrase_transitions : HashMap<String, Vec<(String, String)>>
    pc,                         \* "idle" | "analyze" | "generate" | "panicked" | "aborted"
    scan,                       \* the locals of analyze_corpus while it runs
    walk,                       \* the locals of generate_sentence while it runs
    hist,                       \* what the calls made so far were and returned
    genResult,                  \* what the last generate_sentence call returned
    pin,                        \* one earlier generate_sentence call on this model, kept for replay
    cyclic_array                \* a CyclicArray<String> used on its own, with what was done to it

vars == <<order, sentences_starter_phrases, phrase_transitions, pc, scan, walk,
          hist, genResult, pin, cyclic_array>>

-----------------------------------------------------------------------------
(* Bounds of the model. *)

\* Number of build_markov_model calls made on the one generator.
MaxBuilds == 2

\* Largest order handed to build_markov_model in Spec.
MaxOrder == 2

\* The largest capacity of a cyclic array used on its own, the most writes made
\* to it, and the largest logical index and offset it is asked for.
MaxCapacity == 3
MaxWrites == 5
MaxIndex == 5

-----------------------------------------------------------------------------
(* Constants of the program. *)

MAX_WORD_COUNT == 1000

sentence_delimiters == {",", ".", "!"}

-----------------------------------------------------------------------------
(* Characters and small helpers. *)

\* The three non-ASCII characters the sanitising pattern names, each standing
\* for one character.
LDQ == "<left double quote>"
RDQ == "<right double quote>"
RSQ == "<right single quote>"

\* A buffer slot that was never written: CyclicArray::new leaves it uninitialised.
Uninit == <<"<uninit>">>

\* Option<String>.
None == << >>
Some(s) == <<s>>

\* Marks a character a replacement removes.
Removed == "<removed>"

Min(S) == CHOOSE m \in S : \A n \in S : m <= n

\* char::is_whitespace, on the characters of the model.
IsWhitespace(c) == c \in {" ", "\t", "\n", "\r", "\f"}

-----------------------------------------------------------------------------
(* cyclic_array.rs *)

\* CyclicArray::new(size) for size > 0: `size` slots, none initialised.
CyclicArrayNew(size) == [i \in 1..size |-> Uninit]

\* CyclicArray::new without its check of the size.
CyclicArrayNewNeverPanics(size) == size < 0

\* CyclicArray::new panics when size is zero.
CyclicArrayNewPanics(size) == size = 0

\* The index wrapped by one subtraction of the length instead of a remainder.
index_wraps_once(data, idx) == IF idx >= Len(data) THEN idx - Len(data) ELSE idx

\* CyclicArray::index: the loop `while adjusted_index < 0` never runs for a usize.
index(data, idx) == idx % Len(data)

\* create_offset_array reading from slot 0 whatever the offset.
create_offset_array_unrotated(data, offset) ==
    [i \in 1..Len(data) |-> data[index(data, i - 1) + 1]]

\* create_offset_array reading from one slot too far.
create_offset_array_off_by_one(data, offset) ==
    [i \in 1..Len(data) |-> data[index(data, i + offset) + 1]]

\* create_offset_array: the slots from `offset`, wrapping, cloned.
create_offset_array(data, offset) ==
    [i \in 1..Len(data) |-> data[index(data, (i - 1) + offset) + 1]]

\* index_mut keeping an index past the end at the last slot instead of wrapping.
index_mut_clamped(data, idx, value) ==
    [data EXCEPT ![(IF idx >= Len(data) THEN Len(data) - 1 ELSE idx) + 1] = value]

\* IndexMut::index_mut followed by the assignment through the reference.
index_mut(data, idx, value) == [data EXCEPT ![index(data, idx) + 1] = value]

\* Assigning over a slot, or dropping the array, drops the old value.  Dropping
\* a String that was never initialised is undefined behaviour: with a zero
\* capacity word nothing is freed, otherwise an arbitrary pointer is freed and
\* the allocator aborts the process.
DropOutcomes(slots) ==
    IF \E i \in 1..Len(slots) : slots[i] = Uninit THEN {"noop", "abort"} ELSE {"drop"}

-----------------------------------------------------------------------------
(* The corpus normaliser: the first three statements of analyze_corpus. *)

\* corpus.replace("\n", " ")
ReplaceNewlines(s) == [i \in 1..Len(s) |-> IF s[i] = "\n" THEN " " ELSE s[i]]

\* The length of the match of  \[.+?\]|\""|\)|\(|\'|\n|\r|LDQ|RDQ|RSQ|_  that
\* starts at position i, 0 when none does.  The alternatives start with
\* different characters, so the first character selects the alternative:
\*   \[.+?\]  an opening bracket, at least one character other than a newline,
\*            up to the nearest closing bracket;
\*   \""      two consecutive straight double quotes;
\*   the others one character each.
SanitizeMatchLen(s, i) ==
    IF s[i] = "["
    THEN LET ends == {j \in (i + 2)..Len(s) :
                        /\ s[j] = "]"
                        /\ \A k \in (i + 1)..(j - 1) : s[k] # "\n"}
         IN  IF ends = {} THEN 0 ELSE Min(ends) - i + 1
    ELSE IF s[i] = "\""
    THEN IF i < Len(s) /\ s[i + 1] = "\"" THEN 2 ELSE 0
    ELSE IF s[i] \in {")", "(", "'", "\n", "\r", LDQ, RDQ, RSQ, "_"} THEN 1
    ELSE 0

\* santize.replace_all(&s, ""): the leftmost matches, one after another.
RECURSIVE SanitizeFrom(_, _)
SanitizeFrom(s, from) ==
    LET starts == {i \in from..Len(s) : SanitizeMatchLen(s, i) > 0}
    IN  IF starts = {}
        THEN SubSeq(s, from, Len(s))
        ELSE LET i == Min(starts)
             IN  SubSeq(s, from, i - 1) \o SanitizeFrom(s, i + SanitizeMatchLen(s, i))

Sanitize(s) == SanitizeFrom(s, 1)

\* Regex \s+ replaced by one space: the first character of a run of whitespace
\* becomes a space and the others go.
CollapseWhitespace(s) ==
    LET marked == [i \in 1..Len(s) |->
                     IF IsWhitespace(s[i])
                     THEN IF i > 1 /\ IsWhitespace(s[i - 1]) THEN Removed ELSE " "
                     ELSE s[i]]
    IN  SelectSeq(marked, LAMBDA c : c # Removed)

CleanCorpus(corpus) == CollapseWhitespace(Sanitize(ReplaceNewlines(corpus)))

\* str::split_whitespace as the iterator it is: from position pos, the next
\* maximal run of characters that are not whitespace.
HasNextWord(s, pos) == ~(\A i \in pos..Len(s) : IsWhitespace(s[i]))

NextWord(s, pos) ==
    LET first == CHOOSE i \in pos..Len(s) :
                   /\ ~IsWhitespace(s[i])
                   /\ \A k \in pos..(i - 1) : IsWhitespace(s[k])
        last  == CHOOSE j \in first..Len(s) :
                   /\ j = Len(s) \/ IsWhitespace(s[j + 1])
                   /\ \A k \in first..j : ~IsWhitespace(s[k])
    IN  [word |-> SubSeq(s, first, last), pos |-> last + 1]

-----------------------------------------------------------------------------
(* analyze_corpus: the body of the loop over the words. *)

\* [String]::join(" ")
RECURSIVE Join(_)
Join(words) ==
    IF Len(words) = 0 THEN << >>
    ELSE IF Len(words) = 1 THEN words[1]
    ELSE LET half == Len(words) \div 2
         IN  Join(SubSeq(words, 1, half)) \o <<" ">>
                 \o Join(SubSeq(words, half + 1, Len(words)))

\* The delimiter looked for at the start of the word.
EndsSentenceFirstChar(word) == word[1] \in sentence_delimiters

\* sentence_delimiters.contains(the last character of word)
EndsSentence(word) == word[Len(word)] \in sentence_delimiters

\* A new entry created empty, the transition not pushed.
EntryPushDefault(map, key, value) ==
    IF key \in DOMAIN map
    THEN [map EXCEPT ![key] = Append(@, value)]
    ELSE [k \in DOMAIN map \cup {key} |-> IF k = key THEN << >> ELSE map[k]]

\* phrase_transitions.entry(key).and_modify(push).or_insert_with(vec![..])
EntryPush(map, key, value) ==
    IF key \in DOMAIN map
    THEN [map EXCEPT ![key] = Append(@, value)]
    ELSE [k \in DOMAIN map \cup {key} |-> IF k = key THEN <<value>> ELSE map[k]]

\* HashMap::new()
EmptyMap == [k \in {} |-> << >>]

\* The iteration with the count kept when a sentence ends before the window
\* is full.
AnalyzeWordKeepsCount(st, word) ==
    LET written == index_mut(st.sliding_widow, st.word_count, word)
        count   == st.word_count + 1
    IN  IF Len(word) = 0
        THEN st
        ELSE IF count < st.order
        THEN IF Len(word) = 0
             THEN [st EXCEPT !.sliding_widow = written, !.word_count = count,
                             !.error = "Word is empty"]
             ELSE IF EndsSentence(word)
             THEN [st EXCEPT !.sliding_widow = written,
                             !.previous_phrase_string = None,
                             !.word_count = count]
             ELSE [st EXCEPT !.sliding_widow = written, !.word_count = count]
        ELSE LET phrase        == create_offset_array(written, count)
                 phrase_string == Join(phrase)
                 recorded ==
                     IF st.previous_phrase_string = None
                     THEN [st EXCEPT !.sentences_starter_phrases =
                                         Append(@, phrase_string)]
                     ELSE [st EXCEPT !.phrase_transitions =
                                         EntryPush(@, st.previous_phrase_string[1],
                                                   <<phrase_string, word>>)]
             IN  IF EndsSentence(word)
                 THEN [recorded EXCEPT !.sliding_widow = written,
                                       !.previous_phrase_string = None,
                                       !.word_count = 0]
                 ELSE [recorded EXCEPT !.sliding_widow = written,
                                       !.previous_phrase_string = Some(phrase_string),
                                       !.word_count = count]

\* One iteration of `for word in cleaned_corpus.split_whitespace()`, on
\*   st = [order, sentences_starter_phrases, phrase_transitions,
\*         word_count, sliding_widow, previous_phrase_string, error].
\* An empty word is skipped; error is the message of the Err the iteration
\* returns, "" when it returns none.
AnalyzeWord(st, word) ==
    LET written == index_mut(st.sliding_widow, st.word_count, word)
        count   == st.word_count + 1
    IN  IF Len(word) = 0
        THEN st
        ELSE IF count < st.order
        THEN IF Len(word) = 0
             THEN [st EXCEPT !.sliding_widow = written, !.word_count = count,
                             !.error = "Word is empty"]
             ELSE IF EndsSentence(word)
             THEN [st EXCEPT !.sliding_widow = written,
                             !.previous_phrase_string = None,
                             !.word_count = 0]
             ELSE [st EXCEPT !.sliding_widow = written, !.word_count = count]
        ELSE LET phrase        == create_offset_array(written, count)
                 phrase_string == Join(phrase)
                 recorded ==
                     IF st.previous_phrase_string = None
                     THEN [st EXCEPT !.sentences_starter_phrases =
                                         Append(@, phrase_string)]
                     ELSE [st EXCEPT !.phrase_transitions =
                                         EntryPush(@, st.previous_phrase_string[1],
                                                   <<phrase_string, word>>)]
             IN  IF EndsSentence(word)
                 THEN [recorded EXCEPT !.sliding_widow = written,
                                       !.previous_phrase_string = None,
                                       !.word_count = 0]
                 ELSE [recorded EXCEPT !.sliding_widow = written,
                                       !.previous_phrase_string = Some(phrase_string),
                                       !.word_count = count]

\* The two checks of build_markov_model made in the other order.
BuildVerdictStartersFirst(starters, transitions) ==
    IF Len(starters) = 0 THEN "NoStarterPhrases"
    ELSE IF DOMAIN transitions = {} THEN "NoPhrasesFound"
    ELSE "Ok"

\* The two checks with their errors exchanged.
BuildVerdictSwapped(starters, transitions) ==
    IF DOMAIN transitions = {} THEN "NoStarterPhrases"
    ELSE IF Len(starters) = 0 THEN "NoPhrasesFound"
    ELSE "Ok"

\* build_markov_model after analyze_corpus returned Ok: the two checks.
BuildVerdict(starters, transitions) ==
    IF DOMAIN transitions = {} THEN "NoPhrasesFound"
    ELSE IF Len(starters) = 0 THEN "NoStarterPhrases"
    ELSE "Ok"

-----------------------------------------------------------------------------
(* Inputs. *)

\* "a b c. a b d."
CorpusABCD == <<"a", " ", "b", " ", "c", ".", " ", "a", " ", "b", " ", "d", ".">>
\* "a b."
CorpusAB == <<"a", " ", "b", ".">>
\* "a. b."
CorpusShort == <<"a", ".", " ", "b", ".">>
\* "a\n[x] (b_)\t c!"
CorpusNoisy == <<"a", "\n", "[", "x", "]", " ", "(", "b", "_", ")", "\t", " ", "c", "!">>
\* ""
CorpusEmpty == << >>
\* "a". b c.   with straight double quotes around the a
CorpusQuoted == <<"\"", "a", "\"", ".", " ", "b", " ", "c", ".">>

Corpora == {CorpusABCD, CorpusAB, CorpusShort, CorpusNoisy, CorpusEmpty, CorpusQuoted}

Orders == 0..MaxOrder

\* "a a a"
CorpusLoop == <<"a", " ", "a", " ", "a">>

\* MAX_WORD_COUNT + 1 words: "b", then "a" MAX_WORD_COUNT - 1 times, then "c".
CorpusLong ==
    LET n == 2 * (MAX_WORD_COUNT + 1) - 1
    IN  [i \in 1..n |-> IF i % 2 = 0 THEN " "
                        ELSE IF i = 1 THEN "b"
                        ELSE IF i = n THEN "c"
                        ELSE "a"]

\* A sentence of MAX_WORD_COUNT words, "a" and at last "a.", then CorpusLong.
CorpusTwoLong ==
    LET n == 2 * MAX_WORD_COUNT
    IN  [i \in 1..n |-> IF i = n THEN "."
                        ELSE IF i % 2 = 0 THEN " "
                        ELSE "a"] \o <<" ">> \o CorpusLong

\* The builds of SpecLong, each a corpus and an order.
LongInputs ==
    {<<CorpusLoop, 1>>, <<CorpusLoop, 2>>,
     <<CorpusLong, MAX_WORD_COUNT - 1>>, <<CorpusLong, MAX_WORD_COUNT>>,
     <<CorpusTwoLong, MAX_WORD_COUNT>>,
     <<CorpusABCD, 1>>, <<CorpusABCD, 2>>, <<CorpusAB, 2>>, <<CorpusEmpty, 0>>}

\* The randomness capability handed to generate_sentence: the values its
\* next_u32 returns, call after call, the sequence repeating.
RngSeqs == {<<0>>, <<1>>, <<1, 0>>, <<2147483647, 2>>}

LongRngSeqs == {<<0>>, <<1, 0>>}

\* RandomNumberGenerator::next_u32, the call numbered `calls` (from 0).
next_u32(rng, calls) == rng[(calls % Len(rng)) + 1]

-----------------------------------------------------------------------------
(* State. *)

NoScan == [cleaned_corpus |-> << >>, pos |-> 0, word_count |-> 0,
           sliding_widow |-> << >>, previous_phrase_string |-> None]

\* string, word_count and phrase are the locals of generate_sentence and rng its
\* argument; the other fields record the call: the number of next_u32 calls made,
\* the starter phrase chosen, the number of words appended, whether every choice
\* so far took index 0, or the last index, and whether a build had succeeded
\* when the call was made.
NoWalk == [string |-> << >>, word_count |-> 0, phrase |-> << >>,
           rng |-> << >>, calls |-> 0, starter |-> << >>, steps |-> 0,
           allFirst |-> TRUE, allLast |-> TRUE, everOk |-> FALSE]

\* kind is "Ok" (string is the sentence), "NoModel", or "WordLimit" (word_count
\* and string are the two values the error message carries).
NoResult == [kind |-> "none", string |-> << >>, word_count |-> 0,
             rng |-> << >>, calls |-> 0, starter |-> << >>, steps |-> 0,
             allFirst |-> TRUE, allLast |-> TRUE, everOk |-> FALSE]

\* result is what an earlier call with the values rng returned; others says
\* whether a call with other values has returned since.
NoPin == [rng |-> << >>, result |-> NoResult, others |-> FALSE]

\* No cyclic array is used on its own.  Of one that is: data are the slots;
\* writes is the number of writes made, at the logical indices 0..writes-1, and
\* written their values; resolved maps each logical index an access was made at
\* to the slot it resolved to; read is the last create_offset_array call, its
\* offset and its result, None once a write followed it.
NoCyclicArray == [status |-> "none", data |-> << >>, writes |-> 0, written |-> << >>,
                  resolved |-> << >>, read |-> None]

\* StringBasedMarkovTextGenerator::new()
Init ==
    /\ order = 0
    /\ sentences_starter_phrases = << >>
    /\ phrase_transitions = EmptyMap
    /\ pc = "idle"
    /\ scan = NoScan
    /\ walk = NoWalk
    /\ hist = [nbuilds |-> 0, corpus |-> << >>, order |-> 0, result |-> "none",
               everOk |-> FALSE]
    /\ genResult = NoResult
    /\ pin = NoPin
    /\ cyclic_array = NoCyclicArray

-----------------------------------------------------------------------------
(* build_markov_model *)

\* The call, up to the construction of the sliding window in analyze_corpus.
BuildStart(corpus, ord, limit) ==
    /\ pc = "idle"
    /\ hist.nbuilds < limit
    /\ order' = ord
    /\ genResult' = NoResult
    /\ pin' = NoPin
    /\ IF CyclicArrayNewPanics(ord)
       THEN /\ pc' = "panicked"
            /\ scan' = scan
            /\ hist' = [hist EXCEPT !.nbuilds = @ + 1, !.corpus = corpus,
                                    !.order = ord, !.result = "panic"]
       ELSE /\ pc' = "analyze"
            /\ scan' = [cleaned_corpus |-> CleanCorpus(corpus), pos |-> 1,
                        word_count |-> 0, sliding_widow |-> CyclicArrayNew(ord),
                        previous_phrase_string |-> None]
            /\ hist' = [hist EXCEPT !.nbuilds = @ + 1, !.corpus = corpus,
                                    !.order = ord, !.result = "running"]
    /\ UNCHANGED <<sentences_starter_phrases, phrase_transitions, walk, cyclic_array>>

\* The generator and the locals of analyze_corpus as AnalyzeWord takes them.
ScanState ==
    [order |-> order,
     sentences_starter_phrases |-> sentences_starter_phrases,
     phrase_transitions |-> phrase_transitions,
     word_count |-> scan.word_count,
     sliding_widow |-> scan.sliding_widow,
     previous_phrase_string |-> scan.previous_phrase_string,
     error |-> ""]

\* One word of the corpus.
ScanWord ==
    /\ pc = "analyze"
    /\ HasNextWord(scan.cleaned_corpus, scan.pos)
    /\ LET next == NextWord(scan.cleaned_corpus, scan.pos)
           old  == scan.sliding_widow[index(scan.sliding_widow, scan.word_count) + 1]
           st   == AnalyzeWord(ScanState, next.word)
       IN  \E outcome \in DropOutcomes(<<old>>) :
             IF outcome = "abort"
             THEN /\ pc' = "aborted"
                  /\ hist' = [hist EXCEPT !.result = "abort"]
                  /\ UNCHANGED <<sentences_starter_phrases, phrase_transitions, scan>>
             ELSE IF st.error # ""
             THEN \E last \in DropOutcomes(st.sliding_widow) :
                    /\ pc' = IF last = "abort" THEN "aborted" ELSE "idle"
                    /\ hist' = [hist EXCEPT !.result =
                                    IF last = "abort" THEN "abort" ELSE "WordIsEmpty"]
                    /\ scan' = IF last = "abort" THEN scan ELSE NoScan
                    /\ UNCHANGED <<sentences_starter_phrases, phrase_transitions>>
             ELSE /\ pc' = "analyze"
                  /\ sentences_starter_phrases' = st.sentences_starter_phrases
                  /\ phrase_transitions' = st.phrase_transitions
                  /\ scan' = [scan EXCEPT !.pos = next.pos,
                                          !.word_count = st.word_count,
                                          !.sliding_widow = st.sliding_widow,
                                          !.previous_phrase_string =
                                              st.previous_phrase_string]
                  /\ hist' = hist
    /\ UNCHANGED <<order, walk, genResult, pin, cyclic_array>>

\* The corpus is consumed: analyze_corpus drops its locals and returns Ok, and
\* build_markov_model makes its two checks and returns.
BuildReturn ==
    /\ pc = "analyze"
    /\ ~HasNextWord(scan.cleaned_corpus, scan.pos)
    /\ \E outcome \in DropOutcomes(scan.sliding_widow) :
         IF outcome = "abort"
         THEN /\ pc' = "aborted"
              /\ hist' = [hist EXCEPT !.result = "abort"]
              /\ scan' = scan
         ELSE LET verdict == BuildVerdict(sentences_starter_phrases, phrase_transitions)
              IN  /\ pc' = "idle"
                  /\ hist' = [hist EXCEPT !.result = verdict,
                                          !.everOk = @ \/ verdict = "Ok"]
                  /\ scan' = NoScan
    /\ UNCHANGED <<order, sentences_starter_phrases, phrase_transitions, walk,
                   genResult, pin, cyclic_array>>

-----------------------------------------------------------------------------
(* generate_sentence *)

\* The index drawn depending on the call made before.
PickIndexCarries(r, len) == ((r % len) + genResult.steps) % len

\* random.next_u32() as usize % len
PickIndex(r, len) == r % len

\* What the call returns, with the record of the call.
Result(kind, w, count) ==
    [kind |-> kind, string |-> w.string, word_count |-> count,
     rng |-> w.rng, calls |-> w.calls, starter |-> w.starter, steps |-> w.steps,
     allFirst |-> w.allFirst, allLast |-> w.allLast, everOk |-> w.everOk]

\* The call returned `result`: it is the last result, and may be the one kept
\* to compare later calls on the same model with.
Returned(result) ==
    /\ genResult' = result
    /\ \E keep \in BOOLEAN :
         pin' = IF pin = NoPin
                THEN IF keep
                     THEN [rng |-> result.rng, result |-> result, others |-> FALSE]
                     ELSE NoPin
                ELSE [pin EXCEPT !.others = @ \/ result.rng # pin.rng]

\* The starter phrase chosen with a second value drawn.
StartWalkDrawsTwice(rng) ==
    LET len    == Len(sentences_starter_phrases)
        chosen == PickIndex(next_u32(rng, 1), len)
        first  == sentences_starter_phrases[chosen + 1]
    IN  [string |-> first, word_count |-> order, phrase |-> first,
         rng |-> rng, calls |-> 2, starter |-> first, steps |-> 0,
         allFirst |-> chosen = 0, allLast |-> chosen = len - 1,
         everOk |-> hist.everOk]

\* The locals after the starter phrase is chosen.
StartWalk(rng) ==
    LET len    == Len(sentences_starter_phrases)
        chosen == PickIndex(next_u32(rng, 0), len)
        first  == sentences_starter_phrases[chosen + 1]
    IN  [string |-> first, word_count |-> order, phrase |-> first,
         rng |-> rng, calls |-> 1, starter |-> first, steps |-> 0,
         allFirst |-> chosen = 0, allLast |-> chosen = len - 1,
         everOk |-> hist.everOk]

\* The iteration appending the transition's phrase instead of its word.
ExtendWalkAppendsPhrase(w) ==
    LET phrase_transition == phrase_transitions[w.phrase]
        len    == Len(phrase_transition)
        chosen == PickIndex(next_u32(w.rng, w.calls), len)
        pair   == phrase_transition[chosen + 1]
    IN  [w EXCEPT !.word_count = @ + 1,
                  !.phrase = pair[1],
                  !.string = (@ \o <<" ">>) \o pair[1],
                  !.calls = @ + 1,
                  !.steps = @ + 1,
                  !.allFirst = @ /\ chosen = 0,
                  !.allLast = @ /\ chosen = len - 1]

\* The iteration leaving the current phrase as it was.
ExtendWalkKeepsPhrase(w) ==
    LET phrase_transition == phrase_transitions[w.phrase]
        len    == Len(phrase_transition)
        chosen == PickIndex(next_u32(w.rng, w.calls), len)
        pair   == phrase_transition[chosen + 1]
    IN  [w EXCEPT !.word_count = @ + 1,
                  !.string = (@ \o <<" ">>) \o pair[2],
                  !.calls = @ + 1,
                  !.steps = @ + 1,
                  !.allFirst = @ /\ chosen = 0,
                  !.allLast = @ /\ chosen = len - 1]

\* The iteration pushing the word without the space before it.
ExtendWalkNoSeparator(w) ==
    LET phrase_transition == phrase_transitions[w.phrase]
        len    == Len(phrase_transition)
        chosen == PickIndex(next_u32(w.rng, w.calls), len)
        pair   == phrase_transition[chosen + 1]
    IN  [w EXCEPT !.word_count = @ + 1,
                  !.phrase = pair[1],
                  !.string = @ \o pair[2],
                  !.calls = @ + 1,
                  !.steps = @ + 1,
                  !.allFirst = @ /\ chosen = 0,
                  !.allLast = @ /\ chosen = len - 1]

\* The locals after one more iteration of the loop that does not fail.
ExtendWalk(w) ==
    LET phrase_transition == phrase_transitions[w.phrase]
        len    == Len(phrase_transition)
        chosen == PickIndex(next_u32(w.rng, w.calls), len)
        pair   == phrase_transition[chosen + 1]
    IN  [w EXCEPT !.word_count = @ + 1,
                  !.phrase = pair[1],
                  !.string = (@ \o <<" ">>) \o pair[2],
                  !.calls = @ + 1,
                  !.steps = @ + 1,
                  !.allFirst = @ /\ chosen = 0,
                  !.allLast = @ /\ chosen = len - 1]

\* The limit tested with > instead of >=.
WordLimitReachedStrict(count) == count > MAX_WORD_COUNT

\* if word_count >= MAX_WORD_COUNT, with word_count already incremented
WordLimitReached(count) == count >= MAX_WORD_COUNT

\* The call, up to the loop.
GenStart(rng) ==
    /\ pc = "idle"
    /\ IF Len(sentences_starter_phrases) = 0
       THEN /\ Returned(Result("NoModel",
                               [NoWalk EXCEPT !.rng = rng, !.everOk = hist.everOk], 0))
            /\ UNCHANGED <<pc, walk>>
       ELSE /\ pc' = "generate"
            /\ walk' = StartWalk(rng)
            /\ UNCHANGED <<genResult, pin>>
    /\ UNCHANGED <<order, sentences_starter_phrases, phrase_transitions, scan, hist,
                   cyclic_array>>

\* One iteration of the loop: the phrase has transitions.
GenExtend ==
    /\ pc = "generate"
    /\ walk.phrase \in DOMAIN phrase_transitions
    /\ IF WordLimitReached(walk.word_count + 1)
       THEN /\ Returned(Result("WordLimit", walk, walk.word_count + 1))
            /\ pc' = "idle"
            /\ walk' = NoWalk
       ELSE /\ walk' = ExtendWalk(walk)
            /\ UNCHANGED <<pc, genResult, pin>>
    /\ UNCHANGED <<order, sentences_starter_phrases, phrase_transitions, scan, hist,
                   cyclic_array>>

\* The phrase has no transitions: the loop ends and the string is returned.
GenReturn ==
    /\ pc = "generate"
    /\ walk.phrase \notin DOMAIN phrase_transitions
    /\ Returned(Result("Ok", walk, 0))
    /\ pc' = "idle"
    /\ walk' = NoWalk
    /\ UNCHANGED <<order, sentences_starter_phrases, phrase_transitions, scan, hist,
                   cyclic_array>>

-----------------------------------------------------------------------------
(* A CyclicArray<String> used on its own. *)

\* The Strings written: "x" and "y".
Values == {<<"x">>, <<"y">>}

Capacities == 0..MaxCapacity

\* CyclicArray::new(size), the generator untouched.
CyclicArrayInit ==
    /\ order = 0
    /\ sentences_starter_phrases = << >>
    /\ phrase_transitions = EmptyMap
    /\ pc = "idle"
    /\ scan = NoScan
    /\ walk = NoWalk
    /\ hist = [nbuilds |-> 0, corpus |-> << >>, order |-> 0, result |-> "none",
               everOk |-> FALSE]
    /\ genResult = NoResult
    /\ pin = NoPin
    /\ \E size \in Capacities :
         cyclic_array =
             IF CyclicArrayNewPanics(size)
             THEN [NoCyclicArray EXCEPT !.status = "panicked"]
             ELSE [NoCyclicArray EXCEPT !.status = "live", !.data = CyclicArrayNew(size)]

\* The slot a logical index resolved to, recorded.
Resolved(resolved, idx, slot) ==
    [i \in DOMAIN resolved \cup {idx} |-> IF i = idx THEN slot ELSE resolved[i]]

\* array[writes] = value: index_mut, then the assignment, which drops the old
\* value of the slot.
CyclicArrayWrite(value) ==
    /\ cyclic_array.status = "live"
    /\ cyclic_array.writes < MaxWrites
    /\ LET data == cyclic_array.data
           idx  == cyclic_array.writes
           slot == index(data, idx)
       IN  \E outcome \in DropOutcomes(<<data[slot + 1]>>) :
             cyclic_array' =
                 IF outcome = "abort"
                 THEN [cyclic_array EXCEPT !.status = "aborted"]
                 ELSE [cyclic_array EXCEPT !.data = index_mut(data, idx, value),
                                           !.writes = idx + 1,
                                           !.written = Append(@, value),
                                           !.resolved = Resolved(@, idx, slot),
                                           !.read = None]
    /\ UNCHANGED <<order, sentences_starter_phrases, phrase_transitions, pc, scan,
                   walk, hist, genResult, pin>>

\* &array[idx]: Index::index.
CyclicArrayIndex(idx) ==
    /\ cyclic_array.status = "live"
    /\ cyclic_array' =
           [cyclic_array EXCEPT !.resolved =
                                    Resolved(@, idx, index(cyclic_array.data, idx))]
    /\ UNCHANGED <<order, sentences_starter_phrases, phrase_transitions, pc, scan,
                   walk, hist, genResult, pin>>

\* Cloning a slot that was never written reads an uninitialised String: the
\* clone copies whatever the slot points to, or the process aborts.
CloneOutcomes(slots) ==
    IF \E i \in 1..Len(slots) : slots[i] = Uninit THEN {"garbage", "abort"} ELSE {"clone"}

\* array.create_offset_array(offset)
CyclicArrayRead(offset) ==
    /\ cyclic_array.status = "live"
    /\ \E outcome \in CloneOutcomes(cyclic_array.data) :
         cyclic_array' =
             IF outcome = "abort"
             THEN [cyclic_array EXCEPT !.status = "aborted"]
             ELSE [cyclic_array EXCEPT !.read =
                       Some([offset |-> offset,
                             values |-> create_offset_array(cyclic_array.data, offset)])]
    /\ UNCHANGED <<order, sentences_starter_phrases, phrase_transitions, pc, scan,
                   walk, hist, genResult, pin>>

-----------------------------------------------------------------------------
(* Specifications. *)

\* Any calls of build_markov_model and generate_sentence, one after another,
\* on one generator.
Next ==
    \/ \E corpus \in Corpora, ord \in Orders : BuildStart(corpus, ord, MaxBuilds)
    \/ ScanWord
    \/ BuildReturn
    \/ \E rng \in RngSeqs : GenStart(rng)
    \/ GenExtend
    \/ GenReturn

Spec == Init /\ [][Next]_vars

\* One build on a new generator, with corpora and orders that reach the word
\* limit, then any generate_sentence calls.  A generate_sentence call runs to
\* completion: each iteration of its loop that can be taken is taken.
NextLong ==
    \/ \E in \in LongInputs : BuildStart(in[1], in[2], 1)
    \/ ScanWord
    \/ BuildReturn
    \/ \E rng \in LongRngSeqs : GenStart(rng)
    \/ GenExtend
    \/ GenReturn

SpecLong ==
    /\ Init
    /\ [][NextLong]_vars
    /\ WF_vars(GenExtend) /\ WF_vars(GenReturn)

\* A cyclic array of any capacity, written at the logical indices 0, 1, 2, ...
\* and accessed and read at any logical index and offset.
NextCyclicArray ==
    \/ \E value \in Values : CyclicArrayWrite(value)
    \/ \E idx \in 0..MaxIndex : CyclicArrayIndex(idx)
    \/ \E offset \in 0..MaxIndex : CyclicArrayRead(offset)

SpecCyclicArray == CyclicArrayInit /\ [][NextCyclicArray]_vars

-----------------------------------------------------------------------------
(* Definitions the properties use. *)

\* The words of a cleaned corpus, in order.
RECURSIVE WordsFrom(_, _)
WordsFrom(s, pos) ==
    IF HasNextWord(s, pos)
    THEN LET next == NextWord(s, pos) IN <<next.word>> \o WordsFrom(s, next.pos)
    ELSE << >>

WordsOf(corpus) == WordsFrom(CleanCorpus(corpus), 1)

\* What analyze_corpus leaves in a generator that was new, for a corpus short
\* enough to be folded in one evaluation.
RECURSIVE AnalyzeFrom(_, _, _)
AnalyzeFrom(st, s, pos) ==
    IF HasNextWord(s, pos)
    THEN LET next == NextWord(s, pos)
         IN  AnalyzeFrom(AnalyzeWord(st, next.word), s, next.pos)
    ELSE st

FreshBuild(corpus, ord) ==
    AnalyzeFrom([order |-> ord,
                 sentences_starter_phrases |-> << >>,
                 phrase_transitions |-> EmptyMap,
                 word_count |-> 0,
                 sliding_widow |-> CyclicArrayNew(ord),
                 previous_phrase_string |-> None,
                 error |-> ""],
                CleanCorpus(corpus), 1)

\* The last build_markov_model call returned to its caller.
BuildReturned == pc = "idle" /\ hist.result \in {"Ok", "NoPhrasesFound", "NoStarterPhrases"}

\* The last build_markov_model call was the first on the generator.
FirstBuild == hist.nbuilds = 1

Occurrences(seq, x) == Cardinality({i \in 1..Len(seq) : seq[i] = x})

Contains(seq, x) == \E i \in 1..Len(seq) : seq[i] = x

\* The number of words of a string whose words single spaces separate.
WordsIn(text) ==
    IF Len(text) = 0 THEN 0
    ELSE Cardinality({i \in 1..Len(text) : text[i] = " "}) + 1

\* "a b", "b c", "b d", "c", "d" and the same with the full stop the corpus has.
TextAB == <<"a", " ", "b">>
TextBC == <<"b", " ", "c">>
TextBD == <<"b", " ", "d">>
TextC == <<"c">>
TextD == <<"d">>
TextBCStop == <<"b", " ", "c", ".">>
TextBDStop == <<"b", " ", "d", ".">>
TextCStop == <<"c", ".">>
TextDStop == <<"d", ".">>

-----------------------------------------------------------------------------
(* C1 *)

\* C1: after any sequence of build calls, the model held after the last build
\* is exactly what that build's corpus and order produce on a new generator:
\* nothing an earlier build recorded remains.
ClaimC1 ==
    BuildReturned =>
        LET fresh == FreshBuild(hist.corpus, hist.order)
        IN  /\ sentences_starter_phrases = fresh.sentences_starter_phrases
            /\ phrase_transitions = fresh.phrase_transitions

-----------------------------------------------------------------------------
(* C2 *)

\* C2: a generate call made when no earlier build call has returned success
\* fails with the NoModel error and returns no sentence.
ClaimC2 ==
    (genResult.kind # "none" /\ ~genResult.everOk) => genResult.kind = "NoModel"

-----------------------------------------------------------------------------
(* C3 *)

BuiltABCD == BuildReturned /\ FirstBuild /\ hist.corpus = CorpusABCD /\ hist.order = 2

\* C3 as stated: building "a b c. a b d." with order 2 on a new generator
\* succeeds, starterPhrases holds "a b" exactly twice and transitions["a b"]
\* holds ("b c", "c") and ("b d", "d").
ClaimC3 ==
    BuiltABCD =>
        /\ hist.result = "Ok"
        /\ Occurrences(sentences_starter_phrases, TextAB) = 2
        /\ TextAB \in DOMAIN phrase_transitions
        /\ Contains(phrase_transitions[TextAB], <<TextBC, TextC>>)
        /\ Contains(phrase_transitions[TextAB], <<TextBD, TextD>>)

\* C3 as amended: the build, when it returns, returns success; starterPhrases
\* holds "a b" exactly twice and transitions["a b"] holds ("b c.", "c.") and
\* ("b d.", "d."): the words keep their punctuation.
ThmC3 ==
    BuiltABCD =>
        /\ hist.result = "Ok"
        /\ Occurrences(sentences_starter_phrases, TextAB) = 2
        /\ TextAB \in DOMAIN phrase_transitions
        /\ Contains(phrase_transitions[TextAB], <<TextBCStop, TextCStop>>)
        /\ Contains(phrase_transitions[TextAB], <<TextBDStop, TextDStop>>)

WitC3 == BuiltABCD /\ hist.result = "Ok"

-----------------------------------------------------------------------------
(* C4 *)

GeneratedOnABCD == BuiltABCD /\ genResult.kind # "none"

\* C4 as stated: on the model built from "a b c. a b d." with order 2, generate
\* returns "a b c" when every choice takes index 0 and "a b d" when every
\* choice takes the last index.
ClaimC4 ==
    GeneratedOnABCD =>
        /\ genResult.allFirst => (genResult.kind = "Ok" /\ genResult.string = TextAB \o <<" ">> \o TextC)
        /\ genResult.allLast => (genResult.kind = "Ok" /\ genResult.string = TextAB \o <<" ">> \o TextD)

\* C4 as amended: generate returns "a b c." when every choice takes index 0 and
\* "a b d." when every choice takes the last index.
ThmC4 ==
    GeneratedOnABCD =>
        /\ genResult.allFirst => (genResult.kind = "Ok" /\ genResult.string = TextAB \o <<" ">> \o TextCStop)
        /\ genResult.allLast => (genResult.kind = "Ok" /\ genResult.string = TextAB \o <<" ">> \o TextDStop)

\* A call of all-first choices was made, and then one of all-last choices.
WitC4 ==
    /\ GeneratedOnABCD
    /\ pin # NoPin /\ pin.result.allFirst /\ pin.result.steps = 1
    /\ genResult.allLast /\ genResult.steps = 1

-----------------------------------------------------------------------------
(* C5 *)

\* Every sentence of the corpus (a run of words ended by a word that ends a
\* sentence, or by the end of the corpus) has fewer than ord words.
NoWindow(words, ord) ==
    \A i \in 1..Len(words) :
        LET ends == {j \in 1..(i - 1) : EndsSentence(words[j])}
            from == IF ends = {} THEN 0 ELSE CHOOSE j \in ends : \A k \in ends : k <= j
        IN  i - from < ord

BuiltWithoutWindow == BuildReturned /\ FirstBuild /\ NoWindow(WordsOf(hist.corpus), hist.order)

\* C5 as stated: a build on a new generator with a corpus in which no complete
\* window forms fails with NoStarterPhrases.
ClaimC5 == BuiltWithoutWindow => hist.result = "NoStarterPhrases"

\* C5 as amended: such a build, when it returns, fails with NoPhrasesFound, the
\* check made first, and has recorded nothing.
ThmC5 ==
    BuiltWithoutWindow =>
        /\ hist.result = "NoPhrasesFound"
        /\ sentences_starter_phrases = << >>
        /\ DOMAIN phrase_transitions = {}

WitC5 == BuiltWithoutWindow /\ Len(WordsOf(hist.corpus)) >= 2 /\ hist.order >= 2

-----------------------------------------------------------------------------
(* C6 *)

\* The keys a transition of key k leads to.
Successors(map, k) == {map[k][i][1] : i \in 1..Len(map[k])} \cap DOMAIN map

RECURSIVE Reachable(_, _)
Reachable(map, S) ==
    LET more == S \cup UNION {Successors(map, k) : k \in S}
    IN  IF more = S THEN S ELSE Reachable(map, more)

\* No key of the transition graph leads back to itself.
Acyclic(map) == \A k \in DOMAIN map : k \notin Reachable(map, Successors(map, k))

\* A generate call got past the check of the starter phrases and returned.
Walked == genResult.kind \in {"Ok", "WordLimit"}

\* C6 as stated: on a model whose transition graph is acyclic, generate
\* terminates, and the sentence it produces has fewer than 1000 words.
ClaimC6 ==
    /\ (pc = "generate" /\ Acyclic(phrase_transitions)) ~> (pc = "idle")
    /\ []((genResult.kind = "Ok" /\ Acyclic(phrase_transitions)) =>
            WordsIn(genResult.string) < MAX_WORD_COUNT)

\* C6 as amended: on a model whose transition graph is acyclic, generate
\* terminates; it produces a sentence whenever order plus the number of keys
\* is below 1000; the sentence it produces is the starter phrase and one word
\* per extension step, at most one step per key, and has fewer than 1000 words
\* when order is below 1000.
ThmC6 ==
    /\ (pc = "generate" /\ Acyclic(phrase_transitions)) ~> (pc = "idle")
    /\ []((Walked /\ Acyclic(phrase_transitions)) =>
            /\ order + Cardinality(DOMAIN phrase_transitions) < MAX_WORD_COUNT
                   => genResult.kind = "Ok"
            /\ genResult.kind = "Ok" =>
                   /\ genResult.steps <= Cardinality(DOMAIN phrase_transitions)
                   /\ WordsIn(genResult.string) = order + genResult.steps
                   /\ order < MAX_WORD_COUNT =>
                          WordsIn(genResult.string) < MAX_WORD_COUNT)

WitC6 ==
    /\ Acyclic(phrase_transitions)
    /\ genResult.kind = "Ok"
    /\ genResult.steps >= 2

-----------------------------------------------------------------------------
(* C7 *)

\* An iteration of the loop of generate_sentence is about to run.
AtKey == pc = "generate" /\ walk.phrase \in DOMAIN phrase_transitions

\* The iteration fails: the error carries the incremented counter and the
\* string as it was, to which no word was appended.
FailsNow ==
    /\ pc' = "idle"
    /\ genResult'.kind = "WordLimit"
    /\ genResult'.word_count = walk.word_count + 1
    /\ genResult'.string = walk.string

\* The iteration appends one word and goes on.
GoesOn ==
    /\ pc' = "generate"
    /\ walk'.word_count = walk.word_count + 1
    /\ WordsIn(walk'.string) = WordsIn(walk.string) + 1

\* The counter starts at order and counts the iterations made.
CounterCounts == pc = "generate" => walk.word_count = order + walk.steps

\* C7: while the phrase is a key of transitions, generate fails with
\* WordLimitExceeded exactly when the counter, which starts at order and is
\* incremented once per extension step, has reached 1000: at the counter value
\* 1000 when order is below 1000, at the first step otherwise.  The error
\* carries the counter and the string accumulated so far, to which the failing
\* step appends no word.
ThmC7 ==
    /\ [][AtKey => IF walk.word_count + 1 >= MAX_WORD_COUNT THEN FailsNow ELSE GoesOn]_vars
    /\ [](CounterCounts)
    /\ [](genResult.kind = "WordLimit" =>
            /\ genResult.word_count = order + genResult.steps + 1
            /\ genResult.word_count >= MAX_WORD_COUNT
            /\ genResult.word_count = MAX_WORD_COUNT \/ genResult.steps = 0
            /\ WordsIn(genResult.string) = WordsIn(genResult.starter) + genResult.steps)

WitC7 ==
    /\ genResult.kind = "WordLimit"
    /\ genResult.word_count = MAX_WORD_COUNT
    /\ genResult.steps > 0

-----------------------------------------------------------------------------
(* C8 *)

\* C8: when the starter phrase generate selects is not a key of transitions,
\* generate succeeds and returns exactly that phrase, having drawn exactly one
\* random value.
ThmC8 ==
    (Walked /\ genResult.starter \notin DOMAIN phrase_transitions) =>
        /\ genResult.kind = "Ok"
        /\ genResult.string = genResult.starter
        /\ genResult.calls = 1

\* The starter returned is not the first of several, in a model with transitions.
WitC8 ==
    /\ Walked
    /\ genResult.starter \notin DOMAIN phrase_transitions
    /\ DOMAIN phrase_transitions # {}
    /\ genResult.starter # sentences_starter_phrases[1]

-----------------------------------------------------------------------------
(* C9 *)

\* The step is one of a generate_sentence call.
GenerateStep == pc = "generate" \/ pc' = "generate" \/ (pc = "idle" /\ pc' = "idle")

\* What a call returns to its caller.
Outcome(r) == <<r.kind, r.string, r.word_count>>

\* C9: two generate calls on the same built model fed the same values return
\* the same result, whatever calls were made in between, and generate leaves
\* starterPhrases, transitions and order unchanged.
ThmC9 ==
    /\ []((pin # NoPin /\ genResult.rng = pin.rng) =>
              Outcome(genResult) = Outcome(pin.result))
    /\ [][GenerateStep =>
              UNCHANGED <<order, sentences_starter_phrases, phrase_transitions>>]_vars

\* A call, then a call with other values, then the first call again, on a
\* model where the values decide the sentence.
WitC9 ==
    /\ pin # NoPin /\ pin.others
    /\ genResult.rng = pin.rng
    /\ genResult.kind = "Ok" /\ genResult.steps > 0
    /\ \E k \in DOMAIN phrase_transitions : Len(phrase_transitions[k]) > 1

-----------------------------------------------------------------------------
(* C10 *)

\* The step is a build_markov_model call with order 0.
BuildsWithOrderZero == hist'.nbuilds = hist.nbuilds + 1 /\ hist'.order = 0

\* C10 as stated: build called with order 0 returns an error to its caller and
\* records no phrase.
ClaimC10 ==
    [][BuildsWithOrderZero =>
          /\ pc' = "idle"
          /\ hist'.result \notin {"Ok", "panic", "abort", "running"}
          /\ UNCHANGED <<sentences_starter_phrases, phrase_transitions>>]_vars

\* C10 as amended: build called with order 0 panics in the construction of the
\* buffer: nothing is returned to its caller, and no phrase is recorded.
ThmC10 ==
    /\ [][BuildsWithOrderZero =>
            /\ pc' = "panicked"
            /\ hist'.result = "panic"
            /\ order' = 0
            /\ UNCHANGED <<sentences_starter_phrases, phrase_transitions>>]_vars
    /\ [](pc = "panicked" => hist.order = 0)

WitC10 == pc = "panicked" /\ hist.nbuilds > 1 /\ Len(sentences_starter_phrases) > 0

-----------------------------------------------------------------------------
(* C11 *)

\* The characters the normaliser is to remove wherever they stand.
Stripped == {"\"", LDQ, RDQ, RSQ, "(", ")", "'", "_"}

\* s holds an opening bracket, at least one character, and a closing bracket.
HasAnnotation(s) ==
    ~(\A i \in 1..Len(s), j \in 1..Len(s) : ~(s[i] = "[" /\ s[j] = "]" /\ j > i + 1))

\* C11: the corpus the Model Builder splits into tokens holds no bracketed
\* annotation, no straight or curly quotation mark, no parenthesis, no
\* apostrophe and no underscore.
ClaimC11 ==
    pc = "analyze" =>
        /\ \A i \in 1..Len(scan.cleaned_corpus) : scan.cleaned_corpus[i] \notin Stripped
        /\ ~HasAnnotation(scan.cleaned_corpus)

-----------------------------------------------------------------------------
(* C12 *)

\* The tokens of a phrase string.
Tokens(text) == WordsFrom(text, 1)

\* Every phrase string of the model: the starters, the keys of the transitions
\* and the next-phrases.
ModelPhrases ==
    {sentences_starter_phrases[i] : i \in 1..Len(sentences_starter_phrases)}
        \cup DOMAIN phrase_transitions
        \cup UNION {{phrase_transitions[k][i][1] : i \in 1..Len(phrase_transitions[k])} :
                       k \in DOMAIN phrase_transitions}

\* C12: in every state reachable by build calls, every phrase string of the
\* model is exactly `order` tokens joined by single spaces, order being the
\* current order.
ClaimC12 ==
    pc \in {"idle", "analyze", "generate"} =>
        \A p \in ModelPhrases : Len(Tokens(p)) = order /\ p = Join(Tokens(p))

-----------------------------------------------------------------------------
(* C13 *)

\* The token ends with a sentence delimiter, ',', '.' or '!'.
IsTerminator(token) == token[Len(token)] \in {",", ".", "!"}

\* In `words`, the tokens P stand in one sentence with W right after them.
ObservedAfter(words, P, W) ==
    \E i \in 1..(Len(words) - Len(P)) :
        /\ SubSeq(words, i, i + Len(P) - 1) = P
        /\ words[i + Len(P)] = W
        /\ \A j \in i..(i + Len(P) - 1) : ~IsTerminator(words[j])

\* C13: for every transition (P', W) stored under a key P, P' is the tokens of
\* P after its first followed by W; in a model built by one build on a new
\* generator P has `order` tokens and W is the token that stood right after P
\* in a sentence of the corpus.
ThmC13 ==
    \A k \in DOMAIN phrase_transitions :
        \A i \in 1..Len(phrase_transitions[k]) :
            LET P      == Tokens(k)
                Pnext  == phrase_transitions[k][i][1]
                W      == phrase_transitions[k][i][2]
            IN  /\ Pnext = Join(SubSeq(P, 2, Len(P)) \o <<W>>)
                /\ FirstBuild =>
                       /\ Len(P) = order
                       /\ ObservedAfter(WordsOf(hist.corpus), P, W)

\* A built model of order 2 in which a key has two transitions.
WitC13 ==
    /\ BuildReturned /\ FirstBuild /\ order = 2
    /\ \E k \in DOMAIN phrase_transitions : Len(phrase_transitions[k]) = 2

-----------------------------------------------------------------------------
(* C14 *)

\* The tokens of `words` after the last terminator that is not the last token.
SinceReset(words) ==
    LET ends == {j \in 1..(Len(words) - 1) : IsTerminator(words[j])}
        from == IF ends = {} THEN 0 ELSE CHOOSE j \in ends : \A k \in ends : k <= j
    IN  SubSeq(words, from + 1, Len(words))

\* The step of the Model Builder records a phrase.
Records ==
    /\ pc = "analyze"
    /\ \/ sentences_starter_phrases' # sentences_starter_phrases
       \/ phrase_transitions' # phrase_transitions

\* The phrase the step records.
RecordedPhrase ==
    IF sentences_starter_phrases' # sentences_starter_phrases
    THEN sentences_starter_phrases'[Len(sentences_starter_phrases')]
    ELSE LET list == phrase_transitions'[scan.previous_phrase_string[1]]
         IN  list[Len(list)][1]

\* C14: every phrase the Model Builder records is the last `order` tokens
\* consumed since the most recent reset, in corpus order; none of its tokens
\* but the last is a sentence terminator.
ThmC14 ==
    [][Records =>
          LET consumed == Tokens(SubSeq(scan.cleaned_corpus, 1, scan'.pos - 1))
              since    == SinceReset(consumed)
              phrase   == Tokens(RecordedPhrase)
          IN  /\ Len(since) >= order
              /\ phrase = SubSeq(since, Len(since) - order + 1, Len(since))
              /\ \A i \in 1..(Len(phrase) - 1) : ~IsTerminator(phrase[i])]_vars

\* A phrase was recorded in a second sentence, after a first that was too
\* short for a window, with order 2.
WitC14 ==
    /\ pc = "analyze" /\ FirstBuild /\ order = 2
    /\ hist.corpus = CorpusQuoted
    /\ Len(sentences_starter_phrases) = 1

-----------------------------------------------------------------------------
(* C15 *)

\* The sentences of `words`: the maximal runs of tokens ended by a terminator
\* or by the end.
RECURSIVE Sentences(_)
Sentences(words) ==
    IF Len(words) = 0 THEN << >>
    ELSE LET ends == {j \in 1..Len(words) : IsTerminator(words[j])}
             to   == IF ends = {} THEN Len(words)
                     ELSE CHOOSE j \in ends : \A k \in ends : j <= k
         IN  <<SubSeq(words, 1, to)>> \o Sentences(SubSeq(words, to + 1, Len(words)))

\* One starter per sentence of at least ord tokens: its first ord tokens.
ExpectedStarters(words, ord) ==
    LET long   == SelectSeq(Sentences(words), LAMBDA sentence : Len(sentence) >= ord)
    IN  [i \in 1..Len(long) |-> Join(SubSeq(long[i], 1, ord))]

\* The phrase is `ord` consecutive tokens of a sentence of `words`.
InSentence(words, p, ord) ==
    LET all == Sentences(words)
    IN  \E n \in 1..Len(all) : \E i \in 1..(Len(all[n]) - ord + 1) :
            Join(SubSeq(all[n], i, i + ord - 1)) = p

\* C15: after a build on a new generator, starterPhrases holds one entry per
\* sentence of at least `order` tokens, in corpus order, that sentence's first
\* `order` tokens, duplicates kept; a shorter sentence contributes nothing:
\* every phrase of the model lies within a sentence of the corpus.
ThmC15 ==
    (BuildReturned /\ FirstBuild) =>
        /\ sentences_starter_phrases = ExpectedStarters(WordsOf(hist.corpus), order)
        /\ \A p \in ModelPhrases : InSentence(WordsOf(hist.corpus), p, order)

\* A corpus with a sentence shorter than order and a longer one.
WitC15 ==
    /\ BuildReturned /\ FirstBuild
    /\ Len(sentences_starter_phrases) >= 1
    /\ \E n \in 1..Len(Sentences(WordsOf(hist.corpus))) :
           Len(Sentences(WordsOf(hist.corpus))[n]) < order

-----------------------------------------------------------------------------
(* C16 *)

\* C16: in every state reachable by build calls, every key of transitions maps
\* to a non-empty list.
ThmC16 == \A k \in DOMAIN phrase_transitions : Len(phrase_transitions[k]) >= 1

\* Keys recorded by two builds, the second still running.
WitC16 ==
    /\ hist.nbuilds = 2 /\ pc = "analyze"
    /\ Cardinality(DOMAIN phrase_transitions) >= 2

-----------------------------------------------------------------------------
(* C18 *)

\* C18: in every state reachable by build calls, transitions non-empty implies
\* starterPhrases non-empty; no build fails with NoStarterPhrases, and a build
\* that returns an error returns NoPhrasesFound.
ThmC18 ==
    /\ DOMAIN phrase_transitions # {} => Len(sentences_starter_phrases) > 0
    /\ hist.result # "NoStarterPhrases"
    /\ (pc = "idle" /\ hist.nbuilds > 0) => hist.result \in {"Ok", "NoPhrasesFound"}

\* A build failed with starters recorded and no transition.
WitC18 ==
    /\ BuildReturned /\ hist.result = "NoPhrasesFound"
    /\ Len(sentences_starter_phrases) > 0

-----------------------------------------------------------------------------
(* C19 *)

\* Every `order` consecutive words of `words` are a phrase of the model.
WindowsRecorded(words) ==
    \A i \in 1..(Len(words) - order + 1) :
        Join(SubSeq(words, i, i + order - 1)) \in ModelPhrases

\* C19: on a model produced by one build on a new generator, at every step of
\* generate the current phrase is the last `order` words of the string; every
\* window of `order` words of the string is a phrase of the model; a sentence
\* returned has order plus the number of extension steps words.
ThmC19 ==
    FirstBuild =>
        /\ pc = "generate" =>
               LET words == Tokens(walk.string)
               IN  /\ Len(words) = order + walk.steps
                   /\ walk.phrase = Join(SubSeq(words, Len(words) - order + 1, Len(words)))
                   /\ WindowsRecorded(words)
        /\ genResult.kind = "Ok" =>
               LET words == Tokens(genResult.string)
               IN  /\ Len(words) = order + genResult.steps
                   /\ WindowsRecorded(words)

\* A sentence of order 2 with a word appended.
WitC19 ==
    /\ FirstBuild /\ order = 2
    /\ genResult.kind = "Ok" /\ genResult.steps >= 1

-----------------------------------------------------------------------------
(* C17 *)

\* The capacity of the cyclic array.
Capacity == Len(cyclic_array.data)

\* create_offset_array was called with `offset` after the last write.
ReadAt(offset) ==
    /\ cyclic_array.status = "live"
    /\ cyclic_array.read # None
    /\ cyclic_array.read[1].offset = offset

\* C17: after count >= N writes at the logical indices 0..count-1 to a buffer
\* of capacity N, readOffset(count) is the last N written values, oldest
\* first; after exactly N writes readOffset(0) is the written values in order.
ThmC17 ==
    /\ (ReadAt(cyclic_array.writes) /\ cyclic_array.writes >= Capacity) =>
           cyclic_array.read[1].values =
               SubSeq(cyclic_array.written, cyclic_array.writes - Capacity + 1,
                      cyclic_array.writes)
    /\ (ReadAt(0) /\ cyclic_array.writes = Capacity) =>
           cyclic_array.read[1].values = cyclic_array.written

\* Capacity 3, five writes of values that differ, then a read at offset 5.
WitC17 ==
    /\ Capacity = 3 /\ cyclic_array.writes = 5 /\ ReadAt(5)
    /\ cyclic_array.written[3] # cyclic_array.written[4]

-----------------------------------------------------------------------------
(* C20 *)

\* C20: for a buffer of capacity N >= 1, every logical index resolves to a
\* slot in 0..N-1, and two logical indices that differ by a multiple of N
\* resolve to the same slot.
ThmC20 ==
    cyclic_array.status = "live" =>
        \A i \in DOMAIN cyclic_array.resolved :
            /\ cyclic_array.resolved[i] \in 0..(Capacity - 1)
            /\ \A j \in DOMAIN cyclic_array.resolved :
                   (j - i) % Capacity = 0 =>
                       cyclic_array.resolved[i] = cyclic_array.resolved[j]

\* Capacity 2: the indices 1, 3 and 5 were accessed.
WitC20 ==
    /\ cyclic_array.status = "live" /\ Capacity = 2
    /\ {1, 3, 5} \subseteq DOMAIN cyclic_array.resolved

====
